---- MODULE Spec2Model ----
(***************************************************************************)
(* The AI meeting assistant: config/settings.py, src/speech_to_text.py,    *)
(* src/summarizer.py, src/interface.py and app.py.                         *)
(*                                                                         *)
(* Strings are sequences of tokens (a token is a character of a path, a    *)
(* word or a whitespace character of a text, or a fixed piece of a         *)
(* message); concatenation is \o and "contains" is a contiguous            *)
(* subsequence.  The empty string is << >>.                                *)
(***************************************************************************)
EXTENDS Integers, Sequences, FiniteSets, TLC

VARIABLES
    settings,      \* config.settings.settings, resolved when the module is imported
    str_parser,    \* what StrOutputParser does with a prompt value (library behaviour)
    stt_binding,   \* what self.stt_processor is bound to when requests are served
    sum_binding,   \* what self.summarizer is bound to when requests are served
    phase,         \* "init", "serving" (the UI is bound) or "exited"
    exit_code,     \* the process's exit code, -1 while it runs
    iface,         \* the MeetingAssistantInterface object's fields
    constructed,   \* iface as it was when construction finished
    last,          \* the last process_meeting request: input, result, events
    prev,          \* the request before it
    nRequests,     \* the number of process_meeting requests served
    lastCall       \* the last call of speech_to_text / summarize_meeting

vars == <<settings, str_parser, stt_binding, sum_binding, phase, exit_code,
          iface, constructed, last, prev, nRequests, lastCall>>

\* The number of requests a behaviour serves.
MaxRequests == 3

----------------------------------------------------------------------------
(* Strings *)

Range(s) == {s[i] : i \in DOMAIN s}

Contains(hay, needle) ==
    \E i \in 0..(Len(hay) - Len(needle)) : SubSeq(hay, i + 1, i + Len(needle)) = needle

Count(s, x) == Cardinality({i \in DOMAIN s : s[i] = x})

IsSpace(tok) == tok \in {" ", "\t"}

RECURSIVE LStrip(_)
LStrip(t) == IF t # << >> /\ IsSpace(Head(t)) THEN LStrip(Tail(t)) ELSE t

RECURSIVE RStrip(_)
RStrip(t) ==
    IF t # << >> /\ IsSpace(t[Len(t)]) THEN RStrip(SubSeq(t, 1, Len(t) - 1)) ELSE t

\* str.strip()
Strip(t) == RStrip(LStrip(t))

UpperToLower == [M |-> "m", P |-> "p", W |-> "w", A |-> "a", V |-> "v"]

\* str.lower()
Lower(s) ==
    [i \in DOMAIN s |-> IF s[i] \in DOMAIN UpperToLower THEN UpperToLower[s[i]] ELSE s[i]]

\* pathlib's PurePath.suffix of a one-component path: the name from its last
\* dot on, unless that dot starts or ends the name.
Suffix(name) ==
    LET dots == {i \in DOMAIN name : name[i] = "."} IN
    IF dots = {} THEN << >>
    ELSE LET i == CHOOSE k \in dots : \A j \in dots : j <= k IN
         IF 1 < i /\ i < Len(name) THEN SubSeq(name, i, Len(name)) ELSE << >>

----------------------------------------------------------------------------
(* Results of calls *)

Return(v) == [kind |-> "return", val |-> v, type |-> "", msg |-> << >>]

Raise(type, msg) == [kind |-> "raise", val |-> << >>, type |-> type, msg |-> msg]

\* str(e): a KeyError shows the repr of its argument, the others the message.
StrOf(e) == IF e.type = "KeyError" THEN <<"'">> \o e.msg \o <<"'">> ELSE e.msg

\* raise Exception(f"<prefix>{str(e)}")
Wrap(prefix, e) == Raise("Exception", <<prefix>> \o StrOf(e))

----------------------------------------------------------------------------
(* config/settings.py *)

EnvApiKeys == {<< >>, <<"sk-key">>}

DefaultTemplate == <<"Summarize the meeting notes: ", "{text}">>
OverrideTemplate == <<"Summary of: ", "{meeting_text}">>
MalformedTemplate == <<"Summary of: ", "{">>

EnvTemplates == {DefaultTemplate, OverrideTemplate, MalformedTemplate}

\* class Settings: three attributes and no other.
Settings(api_key, template) ==
    [OPENAI_API_KEY |-> api_key,
     GPT_MODEL |-> <<"gpt-3.5-turbo">>,
     LANGCHAIN_PROMPT_TEMPLATE |-> template]

HasAttr(s, name) == name \in DOMAIN s

\* settings.<name> where the class defines no such attribute
AttributeError(name) ==
    Raise("AttributeError", <<"'Settings' object has no attribute '", name, "'">>)

----------------------------------------------------------------------------
(* The file system and the two remote services *)

MP3File == <<"a", ".", "m", "p", "3">>
UpperMP3File == <<"b", ".", "M", "P", "3">>
TxtFile == <<"n", ".", "t", "x", "t">>
MissingFile == <<"g", ".", "w", "a", "v">>

FilePaths == {MP3File, UpperMP3File, TxtFile, MissingFile}

\* Path(file_path).exists(); Path("") is the current directory
PathExists(file_path) == file_path \in {<< >>, MP3File, UpperMP3File, TxtFile}

Greeting == <<"hello", " ", "team">>
Blank == <<" ", "\t">>
Budget == <<"budget">>

MeetingTexts == {<< >>, Blank, Greeting, Budget}

\* openai.audio.transcriptions.create: one answer per file
WhisperService(model, file_path, language) ==
    IF file_path = UpperMP3File
    THEN Raise("APIError", <<"speech service unavailable">>)
    ELSE Return(Greeting)

\* openai.chat.completions.create: one answer per prompt
ChatService(model, prompt) ==
    IF Contains(prompt, Budget)
    THEN Raise("APIError", <<"chat service unavailable">>)
    ELSE Return(<<"summary of: ">> \o prompt)

----------------------------------------------------------------------------
(* src/speech_to_text.py *)

\* SpeechToTextProcessor.__init__ without its test of the key
SpeechToTextProcessor_init_unchecked(s) == Return(<<"real">>)

\* SpeechToTextProcessor.__init__(api_key = None)
SpeechToTextProcessor_init(s) ==
    IF s.OPENAI_API_KEY = << >>
    THEN Raise("ValueError", <<"OpenAI API key not provided. ">>)
    ELSE Return(<<"real">>)

\* SpeechToTextProcessor.validate_audio_file: val is a boolean
validate_audio_file(s, file_path) ==
    IF ~ PathExists(file_path) THEN Return(FALSE)
    ELSE IF ~ HasAttr(s, "SUPPORTED_AUDIO_FORMATS")
         THEN AttributeError("SUPPORTED_AUDIO_FORMATS")
    ELSE IF Lower(Suffix(file_path)) \notin s.SUPPORTED_AUDIO_FORMATS THEN Return(FALSE)
    ELSE Return(TRUE)

\* SpeechToTextProcessor.transcribe: its outcome and the number of remote
\* calls it issued.  The validation is outside the try block.
transcribe(s, audio_file_path) ==
    LET valid == validate_audio_file(s, audio_file_path) IN
    IF valid.kind = "raise" THEN [outcome |-> valid, remote |-> 0]
    ELSE IF ~ valid.val
         THEN [outcome |-> Raise("ValueError", <<"Invalid audio file: ">> \o audio_file_path),
               remote |-> 0]
    ELSE IF ~ HasAttr(s, "WHISPER_MODEL")
         THEN [outcome |-> Wrap("Transcription failed: ", AttributeError("WHISPER_MODEL")),
               remote |-> 0]
    ELSE IF ~ HasAttr(s, "TRANSCRIPTION_LANGUAGE")
         THEN [outcome |-> Wrap("Transcription failed: ",
                                AttributeError("TRANSCRIPTION_LANGUAGE")),
               remote |-> 0]
    ELSE LET transcript == WhisperService(s.WHISPER_MODEL, audio_file_path,
                                          s.TRANSCRIPTION_LANGUAGE) IN
         IF transcript.kind = "raise"
         THEN [outcome |-> Wrap("Transcription failed: ", transcript), remote |-> 1]
         ELSE [outcome |-> Return(transcript.val), remote |-> 1]

\* speech_to_text(audio_file_path): a new processor, then transcribe
speech_to_text(s, audio_file_path) ==
    LET processor == SpeechToTextProcessor_init(s) IN
    IF processor.kind = "raise" THEN [outcome |-> processor, remote |-> 0]
    ELSE transcribe(s, audio_file_path)

----------------------------------------------------------------------------
(* src/summarizer.py *)

\* MeetingSummarizer.__init__(api_key = None, model = None)
MeetingSummarizer_init(s) ==
    IF s.OPENAI_API_KEY = << >>
    THEN Raise("ValueError", <<"OpenAI API key not provided. ">>)
    ELSE Return(<<"real">>)

\* str.format(meeting_text = ...) on the summary prompt template
Format(template, meeting_text) ==
    IF template = << >> THEN << >>
    ELSE LET fill[i \in 0..Len(template)] ==
                 IF i = 0 THEN << >>
                 ELSE fill[i - 1] \o (IF template[i] = "{meeting_text}"
                                      THEN meeting_text ELSE <<template[i]>>)
         IN fill[Len(template)]

\* summarize testing only `not meeting_text`, without the strip()
summarize_unstripped(s, meeting_text) ==
    IF meeting_text = << >>
    THEN [outcome |-> Raise("ValueError", <<"Meeting text cannot be empty">>), remote |-> 0]
    ELSE [outcome |-> Wrap("Summarization failed: ",
                           AttributeError("SUMMARY_PROMPT_TEMPLATE")),
          remote |-> 0]

\* MeetingSummarizer.summarize: its outcome and the number of remote calls it
\* issued.  The emptiness test is outside the try block.
summarize(s, meeting_text) ==
    IF meeting_text = << >> \/ Strip(meeting_text) = << >>
    THEN [outcome |-> Raise("ValueError", <<"Meeting text cannot be empty">>), remote |-> 0]
    ELSE IF ~ HasAttr(s, "SUMMARY_PROMPT_TEMPLATE")
         THEN [outcome |-> Wrap("Summarization failed: ",
                                AttributeError("SUMMARY_PROMPT_TEMPLATE")),
               remote |-> 0]
    ELSE LET response == ChatService(s.GPT_MODEL,
                                     Format(s.SUMMARY_PROMPT_TEMPLATE, meeting_text)) IN
         IF response.kind = "raise"
         THEN [outcome |-> Wrap("Summarization failed: ", response), remote |-> 1]
         ELSE [outcome |-> Return(response.val), remote |-> 1]

\* summarize_meeting(meeting_text): a new summarizer, then summarize
summarize_meeting(s, meeting_text) ==
    LET summarizer == MeetingSummarizer_init(s) IN
    IF summarizer.kind = "raise" THEN [outcome |-> summarizer, remote |-> 0]
    ELSE summarize(s, meeting_text)

----------------------------------------------------------------------------
(* Call-counting doubles of the two clients, for exercising process_meeting *)

\* a double of SpeechToTextProcessor.transcribe: one answer per path
StubTranscribe(audio_file_path) ==
    IF audio_file_path = MP3File THEN Return(Greeting)
    ELSE IF audio_file_path = UpperMP3File THEN Return(Blank)
    ELSE IF audio_file_path = TxtFile THEN Raise("RuntimeError", <<"stub transcriber failed">>)
    ELSE Return(Budget)

\* a double of MeetingSummarizer.summarize: one answer per text
StubSummarize(meeting_text) ==
    IF meeting_text = Budget THEN Raise("RuntimeError", <<"stub summarizer failed">>)
    ELSE Return(<<"S:">> \o meeting_text)

----------------------------------------------------------------------------
(* src/interface.py *)

NoChain == [ok |-> FALSE, template |-> << >>]

NoInterface == [stt_processor |-> "none", summarizer |-> "none", chain |-> NoChain]

\* ChatPromptTemplate.from_template: a lone brace is a malformed template
FromTemplate(template) ==
    IF "{" \in Range(template) \/ "}" \in Range(template)
    THEN Raise("ValueError", <<"Single '{' encountered in format string">>)
    ELSE Return(template)

\* MeetingAssistantInterface._setup_langchain_chain: the value of self.chain
setup_langchain_chain(s) ==
    LET prompt == FromTemplate(s.LANGCHAIN_PROMPT_TEMPLATE) IN
    IF prompt.kind = "raise" THEN NoChain
    ELSE [ok |-> TRUE, template |-> prompt.val]

\* MeetingAssistantInterface.__init__
MeetingAssistantInterface_init(s) ==
    LET stt == SpeechToTextProcessor_init(s) IN
    IF stt.kind = "raise" THEN stt
    ELSE LET summarizer == MeetingSummarizer_init(s) IN
         IF summarizer.kind = "raise" THEN summarizer
         ELSE Return([stt_processor |-> "real", summarizer |-> "real",
                      chain |-> setup_langchain_chain(s)])

IsPlaceholder(tok) == tok \in {"{text}", "{meeting_text}"}

\* str() of the dict the chain's first step hands to the prompt
DictRepr(meeting_text) == <<"{'meeting_text': '">> \o meeting_text \o <<"'}">>

\* self.chain.invoke({"meeting_text": meeting_text}): the dict step, the prompt,
\* the string parser.  No client and no remote service is called.
ChainInvoke(chain, parser, meeting_text) ==
    LET wanted == {tok \in Range(chain.template) : IsPlaceholder(tok)} IN
    IF ~ (wanted \subseteq {"{meeting_text}"})
    THEN Raise("KeyError", <<"Input to ChatPromptTemplate is missing variables {'text'}">>)
    ELSE IF parser = "rejects"
         THEN Raise("ValidationError", <<"Input should be a valid string">>)
    ELSE Return(<<"Human: ">> \o Format(chain.template, DictRepr(meeting_text)))

\* self.stt_processor.transcribe(audio_file)
CallTranscribe(self, s, audio_file_path) ==
    IF self.stt_processor = "stub"
    THEN [outcome |-> StubTranscribe(audio_file_path), remote |-> 0]
    ELSE transcribe(s, audio_file_path)

\* self.summarizer.summarize(meeting_text)
CallSummarize(self, s, meeting_text) ==
    IF self.summarizer = "stub"
    THEN [outcome |-> StubSummarize(meeting_text), remote |-> 0]
    ELSE summarize(s, meeting_text)

\* An audio reference: None, or a string.
NoneRef == [none |-> TRUE, path |-> << >>]
Str(path) == [none |-> FALSE, path |-> path]

AudioRefs == {NoneRef, Str(<< >>)} \cup {Str(p) : p \in FilePaths}

\* not audio_file
Falsy(audio_file) == audio_file.none \/ audio_file.path = << >>

Warning == <<"WARNING: upload an audio file first.">>
ErrorPrefix == "An error occurred while processing: "

PMReturn(transcript, summary) ==
    [kind |-> "return", transcript |-> transcript, summary |-> summary,
     type |-> "", msg |-> << >>]

PMRaise(e) ==
    [kind |-> "raise", transcript |-> << >>, summary |-> << >>,
     type |-> e.type, msg |-> e.msg]

NoFailure == Return(<< >>)

\* Step 2 falling back to the summarizer when the chain raises
SummarizeStep_fallback(self, s, parser, meeting_text) ==
    LET c == ChainInvoke(self.chain, parser, meeting_text)
        r == CallSummarize(self, s, meeting_text) IN
    IF self.chain.ok /\ c.kind = "return"
    THEN [step |-> "chain", outcome |-> c, remote |-> 0]
    ELSE [step |-> "summarize", outcome |-> r.outcome, remote |-> r.remote]

\* Step 2 of process_meeting: the chain if self.chain, else the summarizer
SummarizeStep(self, s, parser, meeting_text) ==
    IF self.chain.ok
    THEN [step |-> "chain", outcome |-> ChainInvoke(self.chain, parser, meeting_text),
          remote |-> 0]
    ELSE LET r == CallSummarize(self, s, meeting_text) IN
         [step |-> "summarize", outcome |-> r.outcome, remote |-> r.remote]

\* The try block calling transcribe a second time when the first call raised
TryBody_retry(self, s, parser, audio_file) ==
    LET t == CallTranscribe(self, s, audio_file.path) IN
    IF t.outcome.kind = "raise"
    THEN [outcome |-> PMRaise(t.outcome), failure |-> t.outcome,
          trace |-> <<<<"transcribe", "call">>, <<"transcribe", "raise">>,
                      <<"transcribe", "call">>, <<"transcribe", "raise">>>>,
          remote |-> t.remote + t.remote, self |-> self]
    ELSE LET meeting_text == t.outcome.val
             r == SummarizeStep(self, s, parser, meeting_text) IN
         [outcome |-> IF r.outcome.kind = "raise" THEN PMRaise(r.outcome)
                      ELSE PMReturn(meeting_text, r.outcome.val),
          failure |-> IF r.outcome.kind = "raise" THEN r.outcome ELSE NoFailure,
          trace |-> <<<<"transcribe", "call">>, <<"transcribe", "return">>,
                      <<r.step, "call">>, <<r.step, r.outcome.kind>>>>,
          remote |-> t.remote + r.remote, self |-> self]

\* The try block dropping self.chain once the chain has raised
TryBody_drops_chain(self, s, parser, audio_file) ==
    LET t == CallTranscribe(self, s, audio_file.path) IN
    IF t.outcome.kind = "raise"
    THEN [outcome |-> PMRaise(t.outcome), failure |-> t.outcome,
          trace |-> <<<<"transcribe", "call">>, <<"transcribe", "raise">>>>,
          remote |-> t.remote, self |-> self]
    ELSE LET meeting_text == t.outcome.val
             r == SummarizeStep(self, s, parser, meeting_text) IN
         [outcome |-> IF r.outcome.kind = "raise" THEN PMRaise(r.outcome)
                      ELSE PMReturn(meeting_text, r.outcome.val),
          failure |-> IF r.outcome.kind = "raise" THEN r.outcome ELSE NoFailure,
          trace |-> <<<<"transcribe", "call">>, <<"transcribe", "return">>,
                      <<r.step, "call">>, <<r.step, r.outcome.kind>>>>,
          remote |-> t.remote + r.remote,
          self |-> IF r.step = "chain" /\ r.outcome.kind = "raise"
                   THEN [self EXCEPT !.chain = NoChain] ELSE self]

\* The body of process_meeting's try block: step 1, step 2, the return; the
\* exception a step raised, if one did.
TryBody(self, s, parser, audio_file) ==
    LET t == CallTranscribe(self, s, audio_file.path) IN
    IF t.outcome.kind = "raise"
    THEN [outcome |-> PMRaise(t.outcome), failure |-> t.outcome,
          trace |-> <<<<"transcribe", "call">>, <<"transcribe", "raise">>>>,
          remote |-> t.remote, self |-> self]
    ELSE LET meeting_text == t.outcome.val
             r == SummarizeStep(self, s, parser, meeting_text) IN
         [outcome |-> IF r.outcome.kind = "raise" THEN PMRaise(r.outcome)
                      ELSE PMReturn(meeting_text, r.outcome.val),
          failure |-> IF r.outcome.kind = "raise" THEN r.outcome ELSE NoFailure,
          trace |-> <<<<"transcribe", "call">>, <<"transcribe", "return">>,
                      <<r.step, "call">>, <<r.step, r.outcome.kind>>>>,
          remote |-> t.remote + r.remote, self |-> self]

\* process_meeting without its except clause: the exception propagates
Except_missing(body) == body

\* except Exception as e: return error_msg, ""
Except(body) ==
    IF body.outcome.kind = "raise"
    THEN [body EXCEPT !.outcome = PMReturn(<<ErrorPrefix>> \o StrOf(body.outcome), << >>)]
    ELSE body

\* process_meeting testing `audio_file is None` instead of `not audio_file`
process_meeting_none_only(self, s, parser, audio_file) ==
    LET r == IF audio_file.none
             THEN [outcome |-> PMReturn(Warning, << >>), failure |-> NoFailure,
                   trace |-> << >>, remote |-> 0, self |-> self]
             ELSE Except(TryBody(self, s, parser, audio_file))
    IN [r EXCEPT !.trace = @ \o <<<<"respond", r.outcome.kind>>>>]

\* MeetingAssistantInterface.process_meeting: what it returns (or raises), the
\* calls it made in order, the remote calls issued and the object afterwards.
process_meeting(self, s, parser, audio_file) ==
    LET r == IF Falsy(audio_file)
             THEN [outcome |-> PMReturn(Warning, << >>), failure |-> NoFailure,
                   trace |-> << >>, remote |-> 0, self |-> self]
             ELSE Except(TryBody(self, s, parser, audio_file))
    IN [r EXCEPT !.trace = @ \o <<<<"respond", r.outcome.kind>>>>]

----------------------------------------------------------------------------
(* app.py *)

\* main(): construct the interface and launch it, or log and sys.exit(1)
Main(s) ==
    LET interface == MeetingAssistantInterface_init(s) IN
    IF interface.kind = "raise"
    THEN [phase |-> "exited", exit_code |-> 1, iface |-> NoInterface]
    ELSE [phase |-> "serving", exit_code |-> -1, iface |-> interface.val]

----------------------------------------------------------------------------
(* The state machine *)

NoRequest ==
    [made |-> FALSE, audio |-> NoneRef, outcome |-> PMReturn(<< >>, << >>),
     failure |-> NoFailure, trace |-> << >>, remote |-> 0]

NoCall ==
    [op |-> "none", arg |-> << >>, outcome |-> Return(<< >>), remote |-> 0]

Init ==
    /\ settings \in {Settings(k, t) : k \in EnvApiKeys, t \in EnvTemplates}
    /\ str_parser \in {"passthrough", "rejects"}
    /\ stt_binding \in {"real", "stub"}
    /\ sum_binding \in {"real", "stub"}
    /\ phase = "init"
    /\ exit_code = -1
    /\ iface = NoInterface
    /\ constructed = NoInterface
    /\ last = NoRequest
    /\ prev = NoRequest
    /\ nRequests = 0
    /\ lastCall = NoCall

\* The process starts: app.main.  Where doubles are bound, they replace the
\* two clients once the interface is constructed.
Startup ==
    /\ phase = "init"
    /\ LET m == Main(settings)
           bound == IF m.phase = "serving"
                    THEN [m.iface EXCEPT !.stt_processor = stt_binding,
                                         !.summarizer = sum_binding]
                    ELSE m.iface
       IN /\ phase' = m.phase
          /\ exit_code' = m.exit_code
          /\ iface' = bound
          /\ constructed' = bound
    /\ UNCHANGED <<settings, str_parser, stt_binding, sum_binding, last, prev,
                   nRequests, lastCall>>

\* The button is clicked: process_btn.click(self.process_meeting, ...)
ProcessMeeting(audio_file) ==
    /\ phase = "serving"
    /\ nRequests < MaxRequests
    /\ LET r == process_meeting(iface, settings, str_parser, audio_file) IN
       /\ last' = [made |-> TRUE, audio |-> audio_file, outcome |-> r.outcome,
                   failure |-> r.failure, trace |-> r.trace, remote |-> r.remote]
       /\ iface' = r.self
    /\ prev' = last
    /\ nRequests' = nRequests + 1
    /\ UNCHANGED <<settings, str_parser, stt_binding, sum_binding, phase, exit_code,
                   constructed, lastCall>>

\* speech_to_text(path) is called
SpeechToText(audio_file_path) ==
    /\ LET r == speech_to_text(settings, audio_file_path) IN
       lastCall' = [op |-> "speech_to_text", arg |-> audio_file_path,
                    outcome |-> r.outcome, remote |-> r.remote]
    /\ UNCHANGED <<settings, str_parser, stt_binding, sum_binding, phase, exit_code,
                   iface, constructed, last, prev, nRequests>>

\* summarize_meeting(text) is called
SummarizeMeeting(meeting_text) ==
    /\ LET r == summarize_meeting(settings, meeting_text) IN
       lastCall' = [op |-> "summarize_meeting", arg |-> meeting_text,
                    outcome |-> r.outcome, remote |-> r.remote]
    /\ UNCHANGED <<settings, str_parser, stt_binding, sum_binding, phase, exit_code,
                   iface, constructed, last, prev, nRequests>>

Next ==
    \/ Startup
    \/ \E audio_file \in AudioRefs : ProcessMeeting(audio_file)
    \/ \E audio_file_path \in FilePaths : SpeechToText(audio_file_path)
    \/ \E meeting_text \in MeetingTexts : SummarizeMeeting(meeting_text)

Spec == Init /\ [][Next]_vars

----------------------------------------------------------------------------
(* The properties *)

Requests == {r \in {prev, last} : r.made}

Calls(r, step) == Count(r.trace, <<step, "call">>)

ApiKeySet == settings.OPENAI_API_KEY # << >>

OnlySpaces(text) == \A i \in DOMAIN text : IsSpace(text[i])

\* The supported-format set the settings configure, if they configure one.
ConfiguredFormats ==
    IF HasAttr(settings, "SUPPORTED_AUDIO_FORMATS")
    THEN settings.SUPPORTED_AUDIO_FORMATS ELSE {}

\* C1: a request whose audio reference is None or the empty string returns
\* the fixed warning and an empty summary, and calls neither the
\* transcription client, nor the chain, nor the summarization client.
C1_MissingInputShortCircuits ==
    \A r \in Requests :
        Falsy(r.audio) =>
            /\ r.outcome = PMReturn(Warning, << >>)
            /\ Calls(r, "transcribe") = 0
            /\ Calls(r, "chain") = 0
            /\ Calls(r, "summarize") = 0
            /\ r.remote = 0

C1_Witness ==
    /\ last.made /\ last.audio = Str(<< >>)
    /\ prev.made /\ prev.audio = NoneRef

\* C2: a request with a non-empty audio reference never raises; when the
\* transcription step or the summarization step (chain or client) raised, the
\* result is the error text, which contains the message of the exception,
\* with an empty summary.
C2_ErrorsAreFlattened ==
    \A r \in Requests :
        ~ Falsy(r.audio) =>
            /\ r.outcome.kind = "return"
            /\ r.failure.kind = "raise" =>
                   /\ r.outcome.summary = << >>
                   /\ Head(r.outcome.transcript) = ErrorPrefix
                   /\ Contains(r.outcome.transcript, r.failure.msg)

C2_Witness ==
    /\ last.made /\ <<"summarize", "raise">> \in Range(last.trace)
    /\ prev.made /\ <<"transcribe", "raise">> \in Range(prev.trace)
    /\ last.failure.msg # << >> /\ prev.failure.msg # << >>

\* C3: with both clients replaced by doubles, a request whose transcription
\* returns a non-empty transcript T and whose summarizer double returns S for
\* T returns exactly (T, S), whether the chain was set up or not.
C3_ReturnsTranscriptAndSummary ==
    \A r \in Requests :
        LET t == StubTranscribe(r.audio.path) IN
        (/\ ~ Falsy(r.audio)
         /\ iface.stt_processor = "stub" /\ iface.summarizer = "stub"
         /\ t.kind = "return" /\ t.val # << >>
         /\ StubSummarize(t.val).kind = "return")
        => r.outcome = PMReturn(t.val, StubSummarize(t.val).val)

\* C4: transcribe of a path that names no existing file, or whose lower-cased
\* suffix is not in the configured supported-format set, raises ValueError
\* and issues no remote call.
C4_InvalidPathIsInvalidInput ==
    (/\ lastCall.op = "speech_to_text" /\ ApiKeySet
     /\ \/ ~ PathExists(lastCall.arg)
        \/ Lower(Suffix(lastCall.arg)) \notin ConfiguredFormats)
    => /\ lastCall.outcome.kind = "raise"
       /\ lastCall.outcome.type = "ValueError"
       /\ lastCall.remote = 0

\* C5: whatever raises inside transcribe, validation included, leaves it as
\* the one generic "Transcription failed: ..." Exception; there is no partial
\* result and at most one remote call.
C5_SingleGenericFailure ==
    (lastCall.op = "speech_to_text" /\ ApiKeySet)
    => /\ lastCall.remote <= 1
       /\ lastCall.outcome.kind = "raise" =>
              /\ lastCall.outcome.type = "Exception"
              /\ Head(lastCall.outcome.msg) = "Transcription failed: "
              /\ lastCall.outcome.val = << >>

\* C6: summarize of a text that is empty or all whitespace raises ValueError
\* ("Meeting text cannot be empty") and issues no remote call.
C6_BlankTextIsInvalidInput ==
    (lastCall.op = "summarize_meeting" /\ ApiKeySet /\ OnlySpaces(lastCall.arg))
    => /\ lastCall.outcome = Raise("ValueError", <<"Meeting text cannot be empty">>)
       /\ lastCall.remote = 0

C6_Witness ==
    lastCall.op = "summarize_meeting" /\ ApiKeySet /\ lastCall.arg = Blank

\* C7: two requests in a row with the same audio reference return the same
\* pair, and a request leaves the interface object (both clients and the
\* chain) as construction left it.
C7_Idempotent ==
    /\ (prev.made /\ last.made /\ prev.audio = last.audio) => prev.outcome = last.outcome
    /\ phase = "serving" => iface = constructed

C7_Witness ==
    /\ prev.made /\ last.made /\ prev.audio = last.audio
    /\ last.outcome.summary # << >>
    /\ iface.chain.ok

\* C8: with an empty credential the transcription client cannot be
\* constructed, so the interface is never constructed, the process ends with
\* exit code 1 without serving the UI, no request is processed and no remote
\* call is issued.
C8_NoCredentialNoService ==
    ~ ApiKeySet =>
        /\ phase # "serving" /\ iface = NoInterface
        /\ phase = "exited" => exit_code = 1
        /\ nRequests = 0 /\ ~ last.made /\ last.remote = 0
        /\ lastCall.remote = 0
        /\ lastCall.op = "speech_to_text" =>
               /\ lastCall.outcome.kind = "raise"
               /\ lastCall.outcome.type = "ValueError"
               /\ lastCall.outcome.msg = <<"OpenAI API key not provided. ">>

C8_Witness ==
    ~ ApiKeySet /\ phase = "exited" /\ exit_code = 1 /\ lastCall.op = "speech_to_text"

\* C9: the route is fixed at startup.  A malformed template does not stop the
\* startup and leaves no chain; any other template leaves a chain; the chain
\* field never changes; and every request whose transcription returned goes
\* through the chain alone if there is one, through the summarizer alone if
\* there is none.
C9_RouteFixedAtStartup ==
    /\ (ApiKeySet /\ phase # "init") =>
           /\ phase = "serving"
           /\ constructed.chain.ok <=>
                  (settings.LANGCHAIN_PROMPT_TEMPLATE # MalformedTemplate)
           /\ iface.chain = constructed.chain
    /\ \A r \in Requests :
           <<"transcribe", "return">> \in Range(r.trace) =>
               IF constructed.chain.ok
               THEN Calls(r, "chain") = 1 /\ Calls(r, "summarize") = 0
               ELSE Calls(r, "chain") = 0 /\ Calls(r, "summarize") = 1

C9_Witness ==
    /\ settings.LANGCHAIN_PROMPT_TEMPLATE = MalformedTemplate
    /\ phase = "serving"
    /\ last.made /\ Calls(last, "summarize") = 1
    /\ prev.made /\ Calls(prev, "summarize") = 1

\* C10: within a request with a non-empty audio reference, transcribe is
\* called once and never again, the summarization step (chain or client) is
\* called at most once and only right after transcribe returned, never after
\* it raised, and the response is the last event, after the summarization
\* step ended or a step raised.
C10_LinearNoRetry ==
    \A r \in Requests :
        ~ Falsy(r.audio) =>
            LET tr == r.trace
                n == Len(r.trace) IN
            /\ Calls(r, "transcribe") = 1 /\ tr[1] = <<"transcribe", "call">>
            /\ Calls(r, "chain") + Calls(r, "summarize") <= 1
            /\ \A i \in DOMAIN tr :
                   tr[i] \in {<<"chain", "call">>, <<"summarize", "call">>} =>
                       i > 1 /\ tr[i - 1] = <<"transcribe", "return">>
            /\ <<"transcribe", "raise">> \in Range(tr) =>
                   Calls(r, "chain") + Calls(r, "summarize") = 0
            /\ tr[n][1] = "respond"
            /\ \A i \in 1..(n - 1) : tr[i][1] # "respond"
            /\ n > 1
            /\ \/ tr[n - 1][2] = "raise"
               \/ tr[n - 1] \in {<<"chain", "return">>, <<"summarize", "return">>}

C10_Witness ==
    /\ last.made /\ <<"summarize", "return">> \in Range(last.trace)
    /\ prev.made /\ <<"transcribe", "raise">> \in Range(prev.trace)

====
